---- MODULE Spec2Model ----
(***************************************************************************)
(* Model of binanceapi/option.py: the OptionClient parameter encoder,      *)
(* request signer, client-order-id generator, transport/retry loop and the *)
(* endpoint operations that compose them.                                  *)
(*                                                                         *)
(* Python values are tuples tagged with their type; a dict is the         *)
(* sequence of its items in insertion order; a str is a TLA+ string.       *)
(***************************************************************************)
EXTENDS Integers, Sequences, FiniteSets, TLC

\* ------------------------------------------------------------------ bounds
NumThreads == 2      \* threads sharing one client instance
MaxTries   == 2      \* largest try_counts a client is constructed with
MaxTime    == 1      \* clock readings are EpochBase + 0 .. EpochBase + MaxTime
MaxParams  == 3      \* largest parameter mapping handed to the encoder

Threads == 1 .. NumThreads
NoOwner == 0         \* order_count_lock is not held

\* --------------------------------------------------------- program constants
InitialOrderCount == 1000000
recv_window       == 10000
ListenRecvWindow  == 5000
CancelTries       == 3
DefaultDepth      == 10
host              == "https://testnet.binanceops.com"
ClientIdTag       == "x-A6SIDXVS"
\* int(time.time() * 1000) does not fit TLC's integers: a clock reading is kept
\* as its offset from EpochBase and printed with EpochBase's leading digits.
EpochPrefix       == "170000000000"

\* ------------------------------------------------------------ Python values
PyNone     == << "NoneType" >>
PyInt(n)   == << "int", n >>
PyStr(s)   == << "str", s >>
PyTime(n)  == << "epoch_ms", n >>
PyDict(b)  == << "dict", b >>

\* type(x).__name__ and the payload of a value that has one.
TypeOf(x)  == x[1]
ValueOf(x) == x[2]

\* str(value), as the f-string of build_parameters and str() render it.
Str(x) ==
    CASE TypeOf(x) = "NoneType" -> "None"
      [] TypeOf(x) = "int"      -> ToString(ValueOf(x))
      [] TypeOf(x) = "epoch_ms" -> EpochPrefix \o ToString(ValueOf(x))
      [] TypeOf(x) = "str"      -> ValueOf(x)
      [] OTHER             -> "{}"

\* bool(value): the truth test of `if params.get('price'):`.
Truthy(x) ==
    CASE TypeOf(x) = "NoneType" -> FALSE
      [] TypeOf(x) = "int"      -> ValueOf(x) # 0
      [] TypeOf(x) = "epoch_ms" -> TRUE
      [] TypeOf(x) = "str"      -> ValueOf(x) # ""
      [] OTHER             -> TRUE

\* -------------------------------------------------------------------- dicts
\* One item of a dict: its key and its value.
KV(key, value) == << key, value >>
ItemKey(e)     == e[1]
ItemValue(e)   == e[2]

\* list(d.keys())
RECURSIVE DictKeys(_)
DictKeys(d) ==
    IF Len(d) = 0 THEN << >> ELSE << ItemKey(Head(d)) >> \o DictKeys(Tail(d))

HasKey(d, key) == \E i \in 1 .. Len(d) : ItemKey(d[i]) = key

\* d[key]
DictItem(d, key) ==
    ItemValue(d[CHOOSE i \in 1 .. Len(d) : ItemKey(d[i]) = key])

\* d.get(key)
DictGet(d, key) == IF HasKey(d, key) THEN DictItem(d, key) ELSE PyNone

\* d[key] = value: an existing key keeps its place, a new key goes last.
RECURSIVE DictReplace(_, _, _)
DictReplace(d, key, value) ==
    IF Len(d) = 0 THEN << >>
    ELSE << IF ItemKey(Head(d)) = key THEN KV(key, value) ELSE Head(d) >>
         \o DictReplace(Tail(d), key, value)

DictSet(d, key, value) ==
    IF HasKey(d, key) THEN DictReplace(d, key, value)
    ELSE Append(d, KV(key, value))

\* del d[key]
DictDel(d, key) == SelectSeq(d, LAMBDA e : ItemKey(e) # key)

\* ----------------------------------------------------------------- encoder
\* The parameter names of the client, in the order Python's str comparison
\* (code points) sorts them.
KeyOrder ==
    << "limit", "listenKey", "newClientOrderId", "origClientOrderId", "price",
       "quantity", "recvWindow", "side", "stopPrice", "symbol", "timeInForce",
       "timestamp", "type" >>

KeyRank(key) == CHOOSE i \in 1 .. Len(KeyOrder) : KeyOrder[i] = key

\* list.sort() on a list of distinct str keys.
RECURSIVE SortKeys(_)
SortKeys(keys) ==
    IF Len(keys) = 0 THEN << >>
    ELSE LET m == CHOOSE i \in 1 .. Len(keys) :
                      \A j \in 1 .. Len(keys) : KeyRank(keys[i]) <= KeyRank(keys[j])
             rest == SubSeq(keys, 1, m - 1) \o SubSeq(keys, m + 1, Len(keys))
         IN  << keys[m] >> \o SortKeys(rest)

\* '&'.join(parts)
RECURSIVE JoinAmp(_)
JoinAmp(parts) ==
    IF Len(parts) = 0 THEN ""
    ELSE IF Len(parts) = 1 THEN parts[1]
    ELSE parts[1] \o "&" \o JoinAmp(Tail(parts))

\* The keys the comprehension of build_parameters walks: params.keys(), the
\* insertion order of the dict; the sorted list `keys` is not what it reads.
IterKeys(params, keys) == DictKeys(params)

\* [f"{key}={params[key]}" for key in iter]
RECURSIVE KeyValueParts(_, _)
KeyValueParts(params, iter) ==
    IF Len(iter) = 0 THEN << >>
    ELSE << Head(iter) \o "=" \o Str(DictItem(params, Head(iter))) >>
         \o KeyValueParts(params, Tail(iter))

build_parameters(params) ==
    LET keys == SortKeys(DictKeys(params))
    IN  JoinAmp(KeyValueParts(params, IterKeys(params, keys)))

\* ------------------------------------------------------------------ signer
\* hmac.new(key, msg, sha256).hexdigest(): an uninterpreted injective function.
HmacSha256Hex(key, msg) == "hmac_sha256(" \o key \o "," \o msg \o ")"

\* api_secret.encode('utf8') exists for a str only: None has no encode.
CanEncode(secret) == TypeOf(secret) = "str"

_sign(params, secret) ==
    LET query_string == build_parameters(params)
    IN  query_string \o "&signature=" \o HmacSha256Hex(ValueOf(secret), query_string)

\* --------------------------------------------------------- transport model
\* What one requests.request call can end in: an exception of the network
\* layer (timeout, connection failure), or a response with a status code and
\* a body that response.json() decodes or fails to decode.
StatusCodes == {200, 404}
Bodies      == {"{}", "<html>"}
NetworkError   == << "error", 0, "" >>
Response(s, b) == << "response", s, b >>
OutcomeKind(o) == o[1]
StatusCode(o)  == o[2]     \* response.status_code
Body(o)        == o[3]     \* the text response.json() decodes
Outcomes == {NetworkError} \cup {Response(s, b) : s \in StatusCodes, b \in Bodies}

\* response.json() returns for a JSON body and raises for any other.
IsJson(body) == body = "{}"
response_json(o) == PyDict(Body(o))

\* What the caller of an operation gets.
Return(value) == << "return", value >>
Raise(exc)    == << "raise", exc >>
Pending       == << "pending" >>
ResultKind(r) == r[1]

\* The arguments of self.request: req_method, path, verify.
Request(method, path, verify) == << method, path, verify >>
ReqPath(r)   == r[2]
ReqVerify(r) == r[3]
NoRequest    == Request("", "", FALSE)

\* The operation a thread is in, followed by the arguments the model keeps.
NoCall           == << "none" >>
CallOp(c)        == c[1]
CallOrderType(c) == c[2]
CallPrice(c)     == c[3]
CallStopPrice(c) == c[4]

\* -------------------------------------------------------------------- state
VARIABLES
    api_secret,        \* self.api_secret: None or a str
    try_counts,        \* self.try_counts
    order_count,       \* self.order_count
    order_count_lock,  \* self.order_count_lock: NoOwner or the holding thread
    pc,                \* where each thread stands
    call,              \* each thread's operation and its arguments
    tmp,               \* the order_count a thread loaded to add one to
    client_order_id,   \* the id a thread was given or generated (None: none)
    id_count,          \* the counter value printed into the generated id
    params,            \* the params dict of a thread's operation
    req,               \* method, path and verify of a thread's request call
    query_str,         \* the signed query string of a thread's request call
    url,               \* the url of a thread's request call
    attempts,          \* requests.request calls made by the request call
    http_count,        \* requests.request calls made by the thread in all
    outcomes,          \* how each attempt of the request call ended
    result,            \* what the operation gave its caller
    cancel_i,          \* cancel_order's loop index
    encA, encB,        \* two dicts handed to build_parameters
    outA, outB         \* what build_parameters returned for each (None: not yet)

vars == << api_secret, try_counts, order_count, order_count_lock, pc, call, tmp,
           client_order_id, id_count, params, req, query_str, url, attempts,
           http_count, outcomes, result, cancel_i, encA, encB, outA, outB >>

clientVars == << api_secret, try_counts >>
countVars  == << order_count, order_count_lock, tmp, client_order_id, id_count >>
reqVars    == << params, req, query_str, url, attempts, http_count, outcomes,
                 cancel_i >>
encVars    == << encA, encB, outA, outB >>

\* OptionClient.__init__, before any thread has called anything.
ClientInit ==
    /\ order_count = InitialOrderCount
    /\ order_count_lock = NoOwner
    /\ pc = [t \in Threads |-> "idle"]
    /\ call = [t \in Threads |-> NoCall]
    /\ tmp = [t \in Threads |-> 0]
    /\ client_order_id = [t \in Threads |-> PyNone]
    /\ id_count = [t \in Threads |-> 0]
    /\ params = [t \in Threads |-> << >>]
    /\ req = [t \in Threads |-> NoRequest]
    /\ query_str = [t \in Threads |-> ""]
    /\ url = [t \in Threads |-> ""]
    /\ attempts = [t \in Threads |-> 0]
    /\ http_count = [t \in Threads |-> 0]
    /\ outcomes = [t \in Threads |-> << >>]
    /\ result = [t \in Threads |-> Pending]
    /\ cancel_i = [t \in Threads |-> 0]

Secrets == {PyNone, PyStr(""), PyStr("s3cr3t")}

\* ------------------------------------------------------ input sets of calls
Timestamps  == {PyTime(n) : n \in 0 .. MaxTime}
OrderTypes  == {"LIMIT", "MARKET", "STOP"}
Prices      == {PyNone, PyInt(0), PyInt(5)}
StopPrices  == {-1, 0, 3}
GivenIds    == {PyNone, PyStr("my-order-1")}
Symbol      == PyStr("BTCUSDT")
Side        == PyStr("BUY")
Quantity    == PyInt(1)
TimeInForce == PyStr("GTC")
Symbols     == {PyNone, Symbol}
Limits      == {7, 10, 20}
OrderBookLimits == {10, 20, 50, 100, 1000}

\* ------------------------------------------------- client-order-id generator
\* Faulty variant of LockFree: the block is entered whoever holds the lock.
LockFreeUnguarded(lock) == TRUE

\* Lock.acquire: the `with self.order_count_lock:` block is entered by a
\* thread only while no thread holds the lock.
LockFree(lock) == lock = NoOwner

\* Faulty variant of WithExit: the lock stays with its holder.
WithExitKeepsLock(owner) == owner

\* Lock.release at the end of the `with` block.
WithExit(owner) == NoOwner

\* A thread calls get_client_order_id itself.
get_client_order_id(t) ==
    /\ pc[t] = "idle"
    /\ call' = [call EXCEPT ![t] = << "get_client_order_id" >>]
    /\ pc' = [pc EXCEPT ![t] = "coid_acquire"]
    /\ UNCHANGED << clientVars, countVars, reqVars, result, encVars >>

LockAcquire(t) ==
    /\ pc[t] = "coid_acquire"
    /\ LockFree(order_count_lock)
    /\ order_count_lock' = t
    /\ pc' = [pc EXCEPT ![t] = "coid_load"]
    /\ UNCHANGED << clientVars, order_count, tmp, client_order_id, id_count,
                    call, reqVars, result, encVars >>

\* self.order_count += 1 reads the attribute ...
CountLoad(t) ==
    /\ pc[t] = "coid_load"
    /\ tmp' = [tmp EXCEPT ![t] = order_count]
    /\ pc' = [pc EXCEPT ![t] = "coid_store"]
    /\ UNCHANGED << clientVars, order_count, order_count_lock, client_order_id,
                    id_count, call, reqVars, result, encVars >>

\* ... and stores the sum back.
CountStore(t) ==
    /\ pc[t] = "coid_store"
    /\ order_count' = tmp[t] + 1
    /\ pc' = [pc EXCEPT ![t] = "coid_format"]
    /\ UNCHANGED << clientVars, order_count_lock, tmp, client_order_id,
                    id_count, call, reqVars, result, encVars >>

\* "x-A6SIDXVS" + str(self.get_timestamp()) + str(self.order_count): the
\* attribute is read again here.
FormatId(t, ts) ==
    /\ pc[t] = "coid_format"
    /\ client_order_id' = [client_order_id EXCEPT ![t] =
           PyStr(ClientIdTag \o Str(ts) \o Str(PyInt(order_count)))]
    /\ id_count' = [id_count EXCEPT ![t] = order_count]
    /\ pc' = [pc EXCEPT ![t] = "coid_exit"]
    /\ UNCHANGED << clientVars, order_count, order_count_lock, tmp, call,
                    reqVars, result, encVars >>

\* The return leaves the `with` block; place_order goes on with the id.
LockRelease(t) ==
    /\ pc[t] = "coid_exit"
    /\ order_count_lock' = WithExit(order_count_lock)
    /\ IF CallOp(call[t]) = "place_order"
       THEN /\ pc' = [pc EXCEPT ![t] = "po_params"]
            /\ UNCHANGED result
       ELSE /\ pc' = [pc EXCEPT ![t] = "done"]
            /\ result' = [result EXCEPT ![t] = Return(client_order_id[t])]
    /\ UNCHANGED << clientVars, order_count, tmp, client_order_id, id_count,
                    call, reqVars, encVars >>

\* ------------------------------------------------------------- place_order
\* Faulty variant of StopPriceValid: zero passes.
StopPriceValidOrZero(stop_price) == stop_price >= 0

\* `if stop_price > 0:` of a STOP order.
StopPriceValid(stop_price) == stop_price > 0

\* `if params.get('price'): del params['price']` of a MARKET order.
DropPrice(p) == IF Truthy(DictGet(p, "price")) THEN DictDel(p, "price") ELSE p

place_order(t, order_type, price, given_id, stop_price) ==
    /\ pc[t] = "idle"
    /\ call' = [call EXCEPT ![t] =
           << "place_order", order_type, price, stop_price, given_id >>]
    /\ client_order_id' = [client_order_id EXCEPT ![t] = given_id]
    /\ pc' = [pc EXCEPT ![t] =
           IF given_id = PyNone THEN "coid_acquire" ELSE "po_params"]
    /\ UNCHANGED << clientVars, order_count, order_count_lock, tmp, id_count,
                    reqVars, result, encVars >>

\* The params dict of place_order, shaped by the order type, and the raise
\* that ends a STOP order without a positive stop price.
place_order_params(t, ts) ==
    /\ pc[t] = "po_params"
    /\ LET c  == call[t]
           p0 == << KV("symbol", Symbol), KV("side", Side),
                    KV("type", PyStr(CallOrderType(c))), KV("quantity", Quantity),
                    KV("price", CallPrice(c)), KV("recvWindow", PyInt(recv_window)),
                    KV("timestamp", ts),
                    KV("newClientOrderId", client_order_id[t]) >>
           p1 == IF CallOrderType(c) = "LIMIT"
                 THEN DictSet(p0, "timeInForce", TimeInForce) ELSE p0
           p2 == IF CallOrderType(c) = "MARKET" THEN DropPrice(p1) ELSE p1
       IN  IF CallOrderType(c) = "STOP" /\ ~StopPriceValid(CallStopPrice(c))
           THEN /\ params' = [params EXCEPT ![t] = p2]
                /\ pc' = [pc EXCEPT ![t] = "done"]
                /\ result' = [result EXCEPT ![t] = Raise("ValueError")]
                /\ UNCHANGED req
           ELSE /\ params' = [params EXCEPT ![t] =
                       IF CallOrderType(c) = "STOP"
                       THEN DictSet(p2, "stopPrice", PyInt(CallStopPrice(c)))
                       ELSE p2]
                /\ req' = [req EXCEPT ![t] =
                       Request("POST", "/api/v1/order", TRUE)]
                /\ pc' = [pc EXCEPT ![t] = "request"]
                /\ UNCHANGED result
    /\ UNCHANGED << clientVars, countVars, call, query_str, url, attempts,
                    http_count, outcomes, cancel_i, encVars >>

\* ------------------------------------------------- the other operations
\* An operation that builds its params and calls request.
Operation(t, c, p, method, path, verify) ==
    /\ pc[t] = "idle"
    /\ call' = [call EXCEPT ![t] = c]
    /\ params' = [params EXCEPT ![t] = p]
    /\ req' = [req EXCEPT ![t] =
           Request(method, path, verify)]
    /\ pc' = [pc EXCEPT ![t] = "request"]
    /\ UNCHANGED << clientVars, countVars, query_str, url, attempts,
                    http_count, outcomes, cancel_i, result, encVars >>

get_ping(t) ==
    Operation(t, << "get_ping" >>, << >>, "GET", "/api/v1/ping", FALSE)

get_order_book(t, limit) ==
    Operation(t, << "get_order_book", limit >>,
              << KV("symbol", Symbol),
                 KV("limit", PyInt(IF limit \in OrderBookLimits
                                   THEN limit ELSE DefaultDepth)) >>,
              "GET", "/api/v1/depth", FALSE)

get_listen_key(t, ts) ==
    Operation(t, << "get_listen_key" >>,
              << KV("recvWindow", PyInt(ListenRecvWindow)),
                 KV("timestamp", ts) >>,
              "POST", "/api/v1/userDataStream", TRUE)

extend_listen_key(t, ts) ==
    Operation(t, << "extend_listen_key" >>,
              << KV("recvWindow", PyInt(ListenRecvWindow)),
                 KV("timestamp", ts), KV("listenKey", PyStr("lk-1")) >>,
              "PUT", "/api/v1/userDataStream", TRUE)

get_order(t, ts) ==
    Operation(t, << "get_order" >>,
              << KV("symbol", Symbol), KV("timestamp", ts),
                 KV("origClientOrderId", PyStr("my-order-1")) >>,
              "GET", "/api/v1/order", TRUE)

cancel_order(t, ts) ==
    Operation(t, << "cancel_order" >>,
              << KV("symbol", Symbol), KV("timestamp", ts),
                 KV("origClientOrderId", PyStr("my-order-1")) >>,
              "DELETE", "/api/v1/order", TRUE)

get_open_orders(t, ts, symbol) ==
    Operation(t, << "get_open_orders", symbol >>,
              IF Truthy(symbol)
              THEN << KV("timestamp", ts), KV("symbol", symbol) >>
              ELSE << KV("timestamp", ts) >>,
              "GET", "/api/v1/openOrders", TRUE)

cancel_open_orders(t, ts) ==
    Operation(t, << "cancel_open_orders" >>,
              << KV("timestamp", ts), KV("recvWindow", PyInt(recv_window)),
                 KV("symbol", Symbol) >>,
              "DELETE", "/api/v1/openOrders", TRUE)

get_account_info(t, ts) ==
    Operation(t, << "get_account_info" >>,
              << KV("timestamp", ts), KV("recvWindow", PyInt(recv_window)) >>,
              "GET", "/api/v1/account", TRUE)

SignedOps == {"place_order", "get_order", "cancel_order", "get_open_orders",
              "cancel_open_orders", "get_account_info", "get_listen_key",
              "extend_listen_key"}

\* ------------------------------------------------------- transport engine
\* `for i in range(0, self.try_counts)`: the body runs while i < try_counts,
\* and the function falls off its end, returning None, after the loop.
ForNext(i) == IF i < try_counts THEN "attempt" ELSE "fallthrough"

\* Faulty variant of AfterPrint: the else branch leaves the loop.
AfterPrintBreaks(i) == "fallthrough"

\* The else branch of the status test prints and lets the loop go on.
AfterPrint(i) == ForNext(i)

\* Faulty variant of Classify: status 200 is not told from the others.
ClassifyNo200(o) ==
    IF OutcomeKind(o) = "error" THEN "except"
    ELSE IF ~IsJson(Body(o)) THEN "except"
    ELSE "print"

\* What an attempt's outcome makes of the loop body: "return" (status 200, body
\* decoded), "print" (another status, body decoded and printed), "except" (the
\* call raised, or response.json() raised on the body; caught by the except).
Classify(o) ==
    IF OutcomeKind(o) = "error" THEN "except"
    ELSE IF ~IsJson(Body(o)) THEN "except"
    ELSE IF StatusCode(o) = 200 THEN "return"
    ELSE "print"

\* request, up to its loop: the url, signed when verify is set. _sign raises
\* AttributeError on a None secret; only cancel_order catches what request
\* raises.
request(t) ==
    /\ pc[t] = "request"
    /\ IF ReqVerify(req[t]) /\ ~CanEncode(api_secret)
       THEN /\ IF CallOp(call[t]) = "cancel_order"
               THEN /\ pc' = [pc EXCEPT ![t] = "cancel_except"]
                    /\ UNCHANGED result
               ELSE /\ pc' = [pc EXCEPT ![t] = "done"]
                    /\ result' = [result EXCEPT ![t] = Raise("AttributeError")]
            /\ UNCHANGED << query_str, url, attempts, outcomes >>
       ELSE /\ query_str' = [query_str EXCEPT ![t] =
                   IF ReqVerify(req[t]) THEN _sign(params[t], api_secret) ELSE ""]
            /\ url' = [url EXCEPT ![t] =
                   IF ReqVerify(req[t])
                   THEN host \o ReqPath(req[t]) \o "?" \o _sign(params[t], api_secret)
                   ELSE IF Len(params[t]) > 0
                   THEN host \o ReqPath(req[t]) \o "?" \o build_parameters(params[t])
                   ELSE host \o ReqPath(req[t])]
            /\ attempts' = [attempts EXCEPT ![t] = 0]
            /\ outcomes' = [outcomes EXCEPT ![t] = << >>]
            /\ pc' = [pc EXCEPT ![t] = ForNext(0)]
            /\ UNCHANGED result
    /\ UNCHANGED << clientVars, countVars, call, params, req, http_count,
                    cancel_i, encVars >>

\* One pass of the loop body: requests.request and what follows it.
Attempt(t, o) ==
    /\ pc[t] = "attempt"
    /\ attempts' = [attempts EXCEPT ![t] = @ + 1]
    /\ http_count' = [http_count EXCEPT ![t] = @ + 1]
    /\ outcomes' = [outcomes EXCEPT ![t] = Append(@, o)]
    /\ pc' = [pc EXCEPT ![t] =
           CASE Classify(o) = "return" -> "done"
             [] Classify(o) = "print"  -> AfterPrint(attempts[t] + 1)
             [] OTHER                  -> "sleep"]
    /\ result' = [result EXCEPT ![t] =
           IF Classify(o) = "return" THEN Return(response_json(o)) ELSE @]
    /\ UNCHANGED << clientVars, countVars, call, params, req, query_str, url,
                    cancel_i, encVars >>

\* time.sleep(3) of the except branch, then the next pass.
Sleep(t) ==
    /\ pc[t] = "sleep"
    /\ pc' = [pc EXCEPT ![t] = ForNext(attempts[t])]
    /\ UNCHANGED << clientVars, countVars, call, reqVars, result, encVars >>

\* The end of request after the loop: an implicit `return None`.
Fallthrough(t) ==
    /\ pc[t] = "fallthrough"
    /\ pc' = [pc EXCEPT ![t] = "done"]
    /\ result' = [result EXCEPT ![t] = Return(PyNone)]
    /\ UNCHANGED << clientVars, countVars, call, reqVars, encVars >>

\* cancel_order's `except Exception`: the next of its three tries, or the
\* bare `return` after them.
cancel_order_except(t) ==
    /\ pc[t] = "cancel_except"
    /\ cancel_i' = [cancel_i EXCEPT ![t] = @ + 1]
    /\ IF cancel_i[t] + 1 < CancelTries
       THEN /\ pc' = [pc EXCEPT ![t] = "request"]
            /\ UNCHANGED result
       ELSE /\ pc' = [pc EXCEPT ![t] = "done"]
            /\ result' = [result EXCEPT ![t] = Return(PyNone)]
    /\ UNCHANGED << clientVars, countVars, call, params, req, query_str, url,
                    attempts, http_count, outcomes, encVars >>

\* ----------------------------------------------------------- encoder calls
EncKeys   == {"limit", "recvWindow", "symbol", "timestamp"}
EncValues == {PyInt(1), Symbol}
EncItems  == {KV(k, v) : k \in EncKeys, v \in EncValues}

\* The dicts of at most MaxParams items: no key twice.
EncDicts ==
    {d \in UNION {[1 .. n -> EncItems] : n \in 0 .. MaxParams} :
        \A i, j \in 1 .. Len(d) : ItemKey(d[i]) = ItemKey(d[j]) => i = j}

\* The same items inserted in another order.
RECURSIVE Reordered(_, _, _)
Reordered(d, f, n) ==
    IF n = 0 THEN << >> ELSE Append(Reordered(d, f, n - 1), d[f[n]])

Reorderings(d) ==
    {Reordered(d, f, Len(d)) : f \in Permutations(1 .. Len(d))}

EncodeA ==
    /\ outA = PyNone
    /\ outA' = PyStr(build_parameters(encA))
    /\ UNCHANGED << clientVars, countVars, pc, call, reqVars, result, encA,
                    encB, outB >>

EncodeB ==
    /\ outB = PyNone
    /\ outB' = PyStr(build_parameters(encB))
    /\ UNCHANGED << clientVars, countVars, pc, call, reqVars, result, encA,
                    encB, outA >>

\* ----------------------------------------------------------- specifications
NoEncoding ==
    /\ encA = << >>
    /\ encB = << >>
    /\ outA = PyNone
    /\ outB = PyNone

\* One caller, any operation with any arguments, any client configuration.
MainThread == CHOOSE t \in Threads : \A u \in Threads : t <= u

Init ==
    /\ api_secret \in Secrets
    /\ try_counts \in 0 .. MaxTries
    /\ ClientInit
    /\ NoEncoding

CoidSteps(t) ==
    \/ LockAcquire(t)
    \/ CountLoad(t)
    \/ CountStore(t)
    \/ \E ts \in Timestamps : FormatId(t, ts)
    \/ LockRelease(t)

RequestSteps(t) ==
    \/ request(t)
    \/ \E o \in Outcomes : Attempt(t, o)
    \/ Sleep(t)
    \/ Fallthrough(t)

Next ==
    \/ get_client_order_id(MainThread)
    \/ CoidSteps(MainThread)
    \/ \E ot \in OrderTypes, price \in Prices, id \in GivenIds, sp \in StopPrices :
           place_order(MainThread, ot, price, id, sp)
    \/ \E ts \in Timestamps : place_order_params(MainThread, ts)
    \/ get_ping(MainThread)
    \/ \E limit \in Limits : get_order_book(MainThread, limit)
    \/ \E ts \in Timestamps : get_listen_key(MainThread, ts)
    \/ \E ts \in Timestamps : extend_listen_key(MainThread, ts)
    \/ \E ts \in Timestamps : get_order(MainThread, ts)
    \/ \E ts \in Timestamps : cancel_order(MainThread, ts)
    \/ \E ts \in Timestamps, symbol \in Symbols :
           get_open_orders(MainThread, ts, symbol)
    \/ \E ts \in Timestamps : cancel_open_orders(MainThread, ts)
    \/ \E ts \in Timestamps : get_account_info(MainThread, ts)
    \/ RequestSteps(MainThread)
    \/ cancel_order_except(MainThread)

Spec == Init /\ [][Next]_vars

\* Every thread generates an id, directly or by placing a LIMIT order without
\* one, on a client that can sign and tries once; an attempt of the order's
\* request fails in the network (and sleeps) or succeeds.
ConcOutcomes == {NetworkError, Response(200, "{}")}

InitConc ==
    /\ api_secret = PyStr("s3cr3t")
    /\ try_counts = 1
    /\ ClientInit
    /\ NoEncoding

NextConc ==
    \E t \in Threads :
        \/ get_client_order_id(t)
        \/ place_order(t, "LIMIT", PyInt(5), PyNone, 0)
        \/ CoidSteps(t)
        \/ place_order_params(t, PyTime(0))
        \/ request(t)
        \/ \E o \in ConcOutcomes : Attempt(t, o)
        \/ Sleep(t)
        \/ Fallthrough(t)

SpecConc == InitConc /\ [][NextConc]_vars

\* build_parameters on two dicts of the same items.
InitEnc ==
    /\ api_secret = PyStr("s3cr3t")
    /\ try_counts = MaxTries
    /\ ClientInit
    /\ encA \in EncDicts
    /\ encB \in Reorderings(encA)
    /\ outA = PyNone
    /\ outB = PyNone

NextEnc == EncodeA \/ EncodeB

SpecEnc == InitEnc /\ [][NextEnc]_vars

\* ------------------------------------------------------------------ claims
InRequest(t) == pc[t] \in {"request", "attempt", "sleep", "fallthrough"}
InNetwork(t) == pc[t] \in {"attempt", "sleep"}
InCritical(t) == pc[t] \in {"coid_load", "coid_store", "coid_format", "coid_exit"}
IsStatusFailure(o) == OutcomeKind(o) = "response" /\ StatusCode(o) # 200
IsPlaceOrder(t, order_type) ==
    CallOp(call[t]) = "place_order" /\ CallOrderType(call[t]) = order_type

\* C1: two parameter mappings with the same key-value pairs, inserted in
\* different orders, are encoded by build_parameters to the same string.
C1_SameItemsSameString ==
    (outA # PyNone /\ outB # PyNone) => outA = outB

\* C2: the ids that threads have generated concurrently are pairwise distinct,
\* and the counter values in them are InitialOrderCount + 1 up to
\* InitialOrderCount + (the number of ids), none missing and none twice.
Generated == {t \in Threads : id_count[t] # 0}

C2_DistinctContiguousIds ==
    /\ \A a, b \in Generated :
           a # b => /\ client_order_id[a] # client_order_id[b]
                    /\ id_count[a] # id_count[b]
    /\ {id_count[t] : t \in Generated} =
           InitialOrderCount + 1 .. InitialOrderCount + Cardinality(Generated)

\* Every thread has its id, and all of them went through the generator.
C2_AllGenerated ==
    \A t \in Threads : id_count[t] # 0 /\ ~InCritical(t)

\* C3: a request call whose attempts all ended in a network-level exception
\* has made exactly try_counts attempts when it ends, and ends by reporting a
\* failure to its caller.
C3_ExhaustedReportsFailure ==
    \A t \in Threads :
        ( /\ pc[t] = "done"
          /\ Len(outcomes[t]) > 0
          /\ \A k \in 1 .. Len(outcomes[t]) : OutcomeKind(outcomes[t][k]) = "error" )
        => /\ attempts[t] = try_counts
           /\ ResultKind(result[t]) = "raise"

\* C4 as claimed: an attempt that received a non-200 response is the last
\* attempt of its request call.
C4_NoRetryAfterStatusFailure ==
    \A t \in Threads : \A k \in 1 .. Len(outcomes[t]) :
        IsStatusFailure(outcomes[t][k]) => k = Len(outcomes[t])

\* C4: after an attempt that received a non-200 response the request call
\* goes on to another attempt while fewer than try_counts were made (sleeping
\* first only when the error body failed to decode), and it ends only with
\* try_counts attempts made, returning None.
C4_StatusFailureRetried ==
    \A t \in Threads :
        LET n == Len(outcomes[t])
        IN  (n > 0 /\ IsStatusFailure(outcomes[t][n]))
            => /\ n < try_counts => pc[t] \in {"attempt", "sleep"}
               /\ pc[t] = "sleep" => ~IsJson(Body(outcomes[t][n]))
               /\ pc[t] = "done" => n = try_counts /\ result[t] = Return(PyNone)

\* An attempt was made after a non-200 response whose body decoded.
C4_RetriedAfter404 ==
    \E t \in Threads :
        /\ Len(outcomes[t]) >= 2
        /\ IsStatusFailure(outcomes[t][1])
        /\ IsJson(Body(outcomes[t][1]))

\* C5: the params of a MARKET order's request hold no price, whatever price
\* the caller gave.
C5_MarketOmitsPrice ==
    \A t \in Threads :
        (IsPlaceOrder(t, "MARKET") /\ ReqVerify(req[t]))
        => ~HasKey(params[t], "price")

\* C6: placing a STOP order with stop_price <= 0 never reaches request, makes
\* no HTTP attempt and ends in ValueError.
C6_StopPriceRejected ==
    \A t \in Threads :
        (IsPlaceOrder(t, "STOP") /\ CallStopPrice(call[t]) <= 0)
        => /\ http_count[t] = 0
           /\ ~InRequest(t)
           /\ req[t] = NoRequest
           /\ pc[t] = "done" => result[t] = Raise("ValueError")

\* Such an order was placed and has ended.
C6_StopOrderRejected ==
    \E t \in Threads :
        /\ IsPlaceOrder(t, "STOP")
        /\ CallStopPrice(call[t]) <= 0
        /\ pc[t] = "done"
        /\ result[t] = Raise("ValueError")

\* C7: the params of every signed request hold both timestamp and recvWindow.
C7_SignedCarriesTimestampAndWindow ==
    \A t \in Threads :
        ReqVerify(req[t])
        => HasKey(params[t], "timestamp") /\ HasKey(params[t], "recvWindow")

\* C8: on a client whose api_secret is None or "", a signed operation
\* produces no signed query string, makes no HTTP attempt and ends in an
\* error raised to its caller.
C8_MissingSecretFailsFast ==
    \A t \in Threads :
        (CallOp(call[t]) \in SignedOps /\ api_secret \in {PyNone, PyStr("")})
        => /\ query_str[t] = ""
           /\ http_count[t] = 0
           /\ pc[t] = "done" => ResultKind(result[t]) = "raise"

\* C9 as claimed: an attempt that received HTTP 200 is the last of its request
\* call, which returns the decoded body; a call makes at most try_counts
\* attempts.
C9_ReturnsOn200 ==
    \A t \in Threads :
        /\ attempts[t] <= try_counts
        /\ \A k \in 1 .. Len(outcomes[t]) :
               (OutcomeKind(outcomes[t][k]) = "response" /\ StatusCode(outcomes[t][k]) = 200)
               => /\ k = Len(outcomes[t])
                  /\ pc[t] = "done"
                  /\ result[t] = Return(response_json(outcomes[t][k]))

\* C9: an attempt that received HTTP 200 with a body that decodes is the last
\* of its request call, which returns the decoded body; a call makes at most
\* try_counts attempts.
C9_ReturnsOnDecoded200 ==
    \A t \in Threads :
        /\ attempts[t] <= try_counts
        /\ Len(outcomes[t]) = attempts[t]
        /\ \A k \in 1 .. Len(outcomes[t]) :
               ( /\ OutcomeKind(outcomes[t][k]) = "response"
                 /\ StatusCode(outcomes[t][k]) = 200
                 /\ IsJson(Body(outcomes[t][k])) )
               => /\ k = Len(outcomes[t])
                  /\ pc[t] = "done"
                  /\ result[t] = Return(response_json(outcomes[t][k]))

\* A call returned on a 200 after a failed attempt, with tries left unused or
\* not.
C9_ReturnedAfterRetry ==
    \E t \in Threads :
        /\ Len(outcomes[t]) >= 2
        /\ Classify(outcomes[t][Len(outcomes[t])]) = "return"
        /\ pc[t] = "done"

\* C10: a thread in request (its HTTP attempts and retry sleeps) does not hold
\* order_count_lock; the lock is held only by a thread between the increment
\* and the return of get_client_order_id.
C10_NoLockAcrossNetwork ==
    /\ \A t \in Threads : InRequest(t) => order_count_lock # t
    /\ order_count_lock # NoOwner => InCritical(order_count_lock)

\* One thread is in an HTTP attempt or a retry sleep while another, which
\* took the lock after it, is generating its id.
C10_GeneratesDuringNetwork ==
    \E a, b \in Threads :
        /\ InNetwork(a)
        /\ order_count_lock = b
        /\ pc[b] = "coid_exit"
        /\ id_count[b] > id_count[a]

====
